---- MODULE Spec2Model ----
(***************************************************************************)
(* Model of the background polling engine (monitor_engine.py) together     *)
(* with the checker it is constructed with (run_check in app.py) and the   *)
(* foreground callers of its public interface.                             *)
(*                                                                         *)
(* Monitor records are Python dicts handled by reference, so the model has *)
(* a heap of record objects; a found_slots list shared with a copy made by *)
(* list() is tracked in the copy.                                          *)
(* Every thread (the poll-loop worker and the foreground callers) has a    *)
(* program counter; one step of the model is one statement (or one         *)
(* lock-protected statement) of the source.                                *)
(***************************************************************************)
EXTENDS Integers, Sequences, FiniteSets, TLC

\* ---------------------------------------------------------------- constants
POLL_INTERVAL_SEC == 120

\* ------------------------------------------------------------------- bounds
MaxObjs   == 2      \* record objects alive at the same time
MaxOps    == 3      \* foreground operations called in one behaviour
StartTime == 1000   \* wall clock (epoch seconds) when the engine is built

Ids       == {"a", "b"}            \* monitor identifiers
Editors   == {"ui1"}   \* foreground threads that add, remove, toggle, stop
Viewers   == {"ui2"}   \* foreground threads that render list()
Callers   == Editors \cup Viewers
Worker    == "worker"
Threads   == Callers \cup {Worker}
ClockOffsets == {0, 60, 120, 121}  \* instants observed, after StartTime
MatchLists == {<<"s1", "s2">>}     \* slot lists a check can match

Objs     == 1..MaxObjs

VARIABLES
  clock,        \* wall clock, seconds
  registry,     \* self._monitors: sequence of [id, obj] in dict order
  heap,         \* record objects: Objs -> record
  sent,         \* notifications dispatched for each record object
  lock,         \* self._lock: "free" or the thread holding it
  stopFlag,     \* self._stop
  pc,           \* position of every thread
  now,          \* the worker's local 'now'
  items,        \* the worker's local 'items', the part not yet visited
  ck,           \* per thread: the record a checker call works on, writes left
  floc,         \* per caller: locals of the operation in progress
  ops,          \* number of foreground operations called so far
  removedIds,   \* history: ids whose latest completed add/remove is a remove
  stopReturned  \* history: a stop() call has returned

vars == <<clock, registry, heap, sent, lock, stopFlag, pc, now, items,
          ck, floc, ops, removedIds, stopReturned>>

\* ------------------------------------------------------------ record values
Blank ==
  [id |-> "", active |-> FALSE, last_checked |-> <<>>, status |-> "",
   status_msg |-> "", error |-> "", found_slots |-> <<>>,
   only_one_webhook |-> FALSE, webhook_sent |-> FALSE, stop_on_match |-> FALSE]

NewRecord(id, one, som) ==
  [id |-> id, active |-> TRUE, last_checked |-> <<>>, status |-> "polling",
   status_msg |-> "Monitoring", error |-> "None", found_slots |-> <<>>,
   only_one_webhook |-> one, webhook_sent |-> FALSE, stop_on_match |-> som]

\* A checker call in progress: the record it works on, the statements it still
\* has to execute, whether the engine's except-branch is running, and (history)
\* the record as it was when the call started and how its network I/O ended.
NoFrame ==
  [obj |-> 0, todo |-> <<>>, handler |-> FALSE, pre |-> Blank, out |-> ""]
NewFrame(o, rec) ==
  [obj |-> o, todo |-> <<>>, handler |-> FALSE, pre |-> rec, out |-> ""]
NoLocals == [obj |-> 0, id |-> "", flag |-> FALSE, i |-> 0, res |-> <<>>]

\* ----------------------------------------------------------------- registry
RegIds(reg) == {reg[i].id : i \in DOMAIN reg}

\* Mutant: values() that misses the newest entry.
RegValues_SkipsNewest(reg) == [i \in 1..(Len(reg) - 1) |-> reg[i].obj]

\* Mutant: values() in reverse order.
RegValues_Reversed(reg) == [i \in DOMAIN reg |-> reg[Len(reg) + 1 - i].obj]

RegValues(reg) == [i \in DOMAIN reg |-> reg[i].obj]

\* Mutant: an insert that never replaces.
RegAdd_Appends(reg, id, o) == Append(reg, [id |-> id, obj |-> o])

\* Mutant: an insert that keeps the record already registered (setdefault).
RegAdd_KeepsOld(reg, id, o) ==
  IF id \in RegIds(reg) THEN reg ELSE Append(reg, [id |-> id, obj |-> o])

RegAdd(reg, id, o) ==
  IF id \in RegIds(reg)
    THEN [i \in DOMAIN reg |->
            IF reg[i].id = id THEN [id |-> id, obj |-> o] ELSE reg[i]]
    ELSE Append(reg, [id |-> id, obj |-> o])

\* Mutant: pop() that deletes nothing.
RegRemove_Keeps(reg, id) == reg

\* Mutant: pop() that empties the dict.
RegRemove_Clears(reg, id) == <<>>

\* Mutant: pop() that deletes every key but the given one.
RegRemove_OtherKeys(reg, id) == SelectSeq(reg, LAMBDA e : e.id = id)

RegRemove(reg, id) == SelectSeq(reg, LAMBDA e : e.id # id)

\* Mutant: a lookup that ignores the key.
RegLookup_First(reg, id) == IF reg = <<>> THEN 0 ELSE reg[1].obj

RegLookup(reg, id) ==
  LET hit == {i \in DOMAIN reg : reg[i].id = id}
  IN  IF hit = {} THEN 0 ELSE reg[CHOOSE i \in hit : TRUE].obj

SeqRange(s) == {s[i] : i \in DOMAIN s}

\* --------------------------------------------------------- garbage collection
\* A record's found_slots list is an object of its own.  The model keeps its
\* contents in the record that owns it (heap[o].found_slots); a copy made by
\* list() either still shares that list object (shared = TRUE) or, once the
\* owner was given a new list, holds the old one alone (own).
SharedWith(o) ==
  {<<t, k>> \in Callers \X Objs :
      k \in DOMAIN floc[t].res /\ floc[t].res[k].obj = o /\ floc[t].res[k].shared}

LiveObjs ==
  (SeqRange(RegValues(registry)) \cup SeqRange(items)
     \cup {ck[t].obj : t \in Threads} \cup {floc[t].obj : t \in Callers}
     \cup {o \in Objs : SharedWith(o) # {}}) \ {0}

\* Unreferenced objects are reclaimed; run as the last conjunct of an action.
Commit(h, s) ==
  /\ heap'  = [o \in Objs |-> IF o \in LiveObjs' THEN h[o] ELSE Blank]
  /\ sent'  = [o \in Objs |-> IF o \in LiveObjs' THEN s[o] ELSE 0]

\* Mutant: a new monitor is written into a record object already in use.
FreeObj_Reuses == CHOOSE o \in Objs : \A p \in Objs : o <= p

FreeObj == CHOOSE o \in Objs \ LiveObjs :
             \A p \in Objs \ LiveObjs : o <= p

\* ------------------------------------------------------------ self._lock
\* Mutant: a lock that excludes nobody.
LockFree_NoExclusion(l) == TRUE

\* 'with self._lock' enters only when no thread holds the lock.
LockFree(l) == l = "free"

\* ---------------------------------------------------------------------- Init
Init ==
  /\ clock = StartTime
  /\ registry = <<>>
  /\ heap = [o \in Objs |-> Blank]
  /\ sent = [o \in Objs |-> 0]
  /\ lock = "free"
  /\ stopFlag = FALSE
  /\ pc = [t \in Threads |-> IF t = Worker THEN "w_top" ELSE "idle"]
  /\ now = 0
  /\ items = <<>>
  /\ ck = [t \in Threads |-> NoFrame]
  /\ floc = [t \in Callers |-> NoLocals]
  /\ ops = 0
  /\ removedIds = {}
  /\ stopReturned = FALSE

\* --------------------------------------------------------- checker: run_check
\* The statements a check still has to execute, by outcome of its network I/O.
Finally == << [f |-> "last_checked", v |-> "now"] >>

NoneWrites(msg) ==
  << [f |-> "status", v |-> "none"], [f |-> "status_msg", v |-> msg],
     [f |-> "found_slots", v |-> <<>>], [f |-> "error", v |-> "None"] >>

ErrWrites(msg, err) ==
  << [f |-> "status", v |-> "error"], [f |-> "status_msg", v |-> msg],
     [f |-> "error", v |-> err] >>

\* Mutant: the single-send flag is set before the notification is sent.
HookOps_FlagFirst(rec, m) ==
  IF rec.only_one_webhook /\ rec.webhook_sent THEN <<>>
  ELSE IF rec.only_one_webhook
    THEN << [f |-> "webhook_sent", v |-> TRUE],
            [f |-> "send", v |-> IF Len(m) > 1 THEN "MANY" ELSE "type"] >>
    ELSE << [f |-> "send6", v |-> "type"] >>

\* Mutant: the single-send flag is never set.
HookOps_NoFlag(rec, m) ==
  IF rec.only_one_webhook /\ rec.webhook_sent THEN <<>>
  ELSE IF rec.only_one_webhook
    THEN << [f |-> "send", v |-> IF Len(m) > 1 THEN "MANY" ELSE "type"] >>
    ELSE << [f |-> "send6", v |-> "type"] >>

HookOps(rec, m) ==
  IF rec.only_one_webhook /\ rec.webhook_sent THEN <<>>
  ELSE IF rec.only_one_webhook
    THEN << [f |-> "send", v |-> IF Len(m) > 1 THEN "MANY" ELSE "type"],
            [f |-> "webhook_sent", v |-> TRUE] >>
    ELSE << [f |-> "send6", v |-> "type"] >>

FoundWrites(rec, m) ==
  << [f |-> "status", v |-> "found"], [f |-> "status_msg", v |-> "Found"],
     [f |-> "found_slots", v |-> m], [f |-> "error", v |-> "None"] >>
  \o (IF rec.stop_on_match THEN << [f |-> "active", v |-> FALSE] >> ELSE <<>>)

RunCheckPlan(rec, out) ==
  CASE out[1] = "none"    -> NoneWrites("Nothing available") \o Finally
    [] out[1] = "match"   -> HookOps(rec, out[2]) \o FoundWrites(rec, out[2])
                               \o Finally
    [] out[1] = "apierr"  -> ErrWrites("API error", "E_api") \o Finally
    [] out[1] = "exc"     -> ErrWrites("Unexpected error", "E_exc") \o Finally

\* Mutant: a failure boundary that records no check time.
HandlerWrites_NoTimestamp ==
  << [f |-> "status", v |-> "error"],
     [f |-> "status_msg", v |-> "Background error"],
     [f |-> "error", v |-> "E_raise"] >>

\* Mutant: a failure boundary that also switches the monitor off.
HandlerWrites_Deactivates ==
  << [f |-> "status", v |-> "error"],
     [f |-> "status_msg", v |-> "Background error"],
     [f |-> "error", v |-> "E_raise"],
     [f |-> "active", v |-> FALSE] >> \o Finally

\* The engine's failure boundary around the checker call.
HandlerWrites ==
  << [f |-> "status", v |-> "error"],
     [f |-> "status_msg", v |-> "Background error"],
     [f |-> "error", v |-> "E_raise"] >> \o Finally

RunCheckOutcomes ==
  {<<k, <<>>>> : k \in {"none", "apierr"}}
    \cup {<<"match", m>> : m \in MatchLists}

ApplyWrite(rec, op, clk) ==
  CASE op.f = "status"       -> [rec EXCEPT !.status = op.v]
    [] op.f = "status_msg"   -> [rec EXCEPT !.status_msg = op.v]
    [] op.f = "error"        -> [rec EXCEPT !.error = op.v]
    [] op.f = "active"       -> [rec EXCEPT !.active = op.v]
    [] op.f = "webhook_sent" -> [rec EXCEPT !.webhook_sent = op.v]
    [] op.f = "found_slots"  -> [rec EXCEPT !.found_slots = op.v]
    [] op.f = "last_checked" -> [rec EXCEPT !.last_checked = <<clk>>]

InChecker(th) == pc[th] \in {"c_io", "c_write"}

\* Network I/O of one check ends with some outcome (or never ends).
CheckerIO(th, kinds) ==
  /\ pc[th] = "c_io"
  /\ \E out \in {x \in RunCheckOutcomes : x[1] \in kinds} :
       ck' = [ck EXCEPT ![th].todo = RunCheckPlan(heap[ck[th].obj], out),
                        ![th].out = out[1]]
  /\ pc' = [pc EXCEPT ![th] = "c_write"]
  /\ UNCHANGED <<ops, clock, registry, heap, sent, lock, stopFlag, now,
                 items, floc, removedIds, stopReturned>>

\* Mutant: no failure boundary, the exception ends the worker thread.
CheckerRaise_Unhandled ==
  /\ pc[Worker] = "c_io"
  /\ ck' = [ck EXCEPT ![Worker] = NoFrame]
  /\ items' = <<>>
  /\ pc' = [pc EXCEPT ![Worker] = "w_exit"]
  /\ UNCHANGED <<clock, ops, registry, lock, stopFlag, now, floc,
                 removedIds, stopReturned>>
  /\ Commit(heap, sent)

\* A caller-supplied checker raises an Exception out of the call.
CheckerRaise ==
  /\ pc[Worker] = "c_io"
  /\ ck' = [ck EXCEPT ![Worker].todo = HandlerWrites,
                       ![Worker].handler = TRUE]
  /\ pc' = [pc EXCEPT ![Worker] = "c_write"]
  /\ UNCHANGED <<ops, clock, registry, heap, sent, lock, stopFlag, now,
                 items, floc, removedIds, stopReturned>>

\* sendWebhook delivers the notification.
CheckerSend(th) ==
  /\ pc[th] = "c_write"
  /\ Head(ck[th].todo).f = "send"
  /\ ck' = [ck EXCEPT ![th].todo = Tail(@)]
  /\ sent' = [sent EXCEPT ![ck[th].obj] = IF @ < 2 THEN @ + 1 ELSE @]
  /\ UNCHANGED <<ops, clock, registry, heap, lock, stopFlag, pc, now,
                 items, floc, removedIds, stopReturned>>

\* sendWebhook raises: a network failure, or the call that passes six
\* arguments to the seven-parameter function.
CheckerSendRaise(th) ==
  /\ pc[th] = "c_write"
  /\ Head(ck[th].todo).f \in {"send", "send6"}
  /\ ck' = [ck EXCEPT ![th].todo =
              ErrWrites("Unexpected error", "E_exc") \o Finally]
  /\ UNCHANGED <<ops, clock, registry, heap, sent, lock, stopFlag, pc, now,
                 items, floc, removedIds, stopReturned>>

\* item["found_slots"] = <new list>: copies that shared the old list object
\* of record o now hold it alone.
Detach(o) ==
  [t \in Callers |->
     [floc[t] EXCEPT !.res =
        [k \in DOMAIN floc[t].res |->
           IF floc[t].res[k].obj = o /\ floc[t].res[k].shared
             THEN [floc[t].res[k] EXCEPT !.shared = FALSE,
                                         !.own = heap[o].found_slots]
             ELSE floc[t].res[k]]]]

\* One assignment to a field of the record; the last one is followed by the
\* return to the caller of the checker.
CheckerWrite(th) ==
  /\ pc[th] = "c_write"
  /\ Head(ck[th].todo).f \notin {"send", "send6"}
  /\ LET o    == ck[th].obj
         op   == Head(ck[th].todo)
         rest == Tail(ck[th].todo)
         h    == [heap EXCEPT ![o] = ApplyWrite(@, op, clock)]
     IN  /\ floc' = IF op.f = "found_slots" THEN Detach(o) ELSE floc
         /\ IF rest # <<>>
              THEN /\ ck' = [ck EXCEPT ![th].todo = rest]
                   /\ UNCHANGED <<pc, items>>
              ELSE /\ ck' = [ck EXCEPT ![th] = NoFrame]
                   /\ IF th = Worker
                        THEN /\ items' = Tail(items)
                             /\ pc' = [pc EXCEPT ![th] = "w_iter"]
                        ELSE /\ pc' = [pc EXCEPT ![th] = "add_lock"]
                             /\ UNCHANGED items
         /\ UNCHANGED <<ops, clock, registry, lock, stopFlag, now,
                        removedIds, stopReturned>>
         /\ Commit(h, sent)

\* ------------------------------------------------------- poll loop: _loop
\* Mutant: half the poll interval.
IsDue_ShortInterval(nw, lc) ==
  LET last_ts == IF lc # <<>> THEN lc[1] ELSE 0
  IN  nw - last_ts >= 60

\* Mutant: an unset last_checked counts as checked just now.
IsDue_UnsetIsNow(nw, lc) ==
  LET last_ts == IF lc # <<>> THEN lc[1] ELSE nw
  IN  nw - last_ts >= POLL_INTERVAL_SEC

\* Mutant: strictly more than the poll interval.
IsDue_Strict(nw, lc) ==
  LET last_ts == IF lc # <<>> THEN lc[1] ELSE 0
  IN  nw - last_ts > POLL_INTERVAL_SEC

IsDue(nw, lc) ==
  LET last_ts == IF lc # <<>> THEN lc[1] ELSE 0
  IN  nw - last_ts >= POLL_INTERVAL_SEC

\* Mutant: a loop that never tests the stop signal.
WTop_IgnoresStop ==
  /\ pc[Worker] = "w_top"
  /\ pc' = [pc EXCEPT ![Worker] = "w_lock"]
  /\ now' = clock
  /\ UNCHANGED <<ops, clock, registry, heap, sent, lock, stopFlag, items,
                 ck, floc, removedIds, stopReturned>>

WTop ==
  /\ pc[Worker] = "w_top"
  /\ IF stopFlag
       THEN /\ pc' = [pc EXCEPT ![Worker] = "w_exit"]
            /\ UNCHANGED now
       ELSE /\ pc' = [pc EXCEPT ![Worker] = "w_lock"]
            /\ now' = clock
  /\ UNCHANGED <<ops, clock, registry, heap, sent, lock, stopFlag, items,
                 ck, floc, removedIds, stopReturned>>

WLock ==
  /\ pc[Worker] = "w_lock"
  /\ LockFree(lock)
  /\ lock' = Worker
  /\ pc' = [pc EXCEPT ![Worker] = "w_snap"]
  /\ UNCHANGED <<ops, clock, registry, heap, sent, stopFlag, now, items,
                 ck, floc, removedIds, stopReturned>>

\* Mutant: the lock is kept for the whole scan.
WSnap_HoldsLock ==
  /\ pc[Worker] = "w_snap"
  /\ items' = RegValues(registry)
  /\ pc' = [pc EXCEPT ![Worker] = "w_iter"]
  /\ UNCHANGED <<ops, clock, registry, heap, sent, lock, stopFlag, now, ck,
                 floc, removedIds, stopReturned>>

WSnap ==
  /\ pc[Worker] = "w_snap"
  /\ items' = RegValues(registry)
  /\ lock' = "free"
  /\ pc' = [pc EXCEPT ![Worker] = "w_iter"]
  /\ UNCHANGED <<ops, clock, registry, heap, sent, stopFlag, now, ck, floc,
                 removedIds, stopReturned>>

WIter ==
  /\ pc[Worker] = "w_iter"
  /\ IF items = <<>>
       THEN /\ pc' = [pc EXCEPT ![Worker] = "w_sleep"]
            /\ now' = 0
            /\ UNCHANGED items
       ELSE IF ~heap[Head(items)].active
         THEN /\ items' = Tail(items)
              /\ UNCHANGED <<pc, now>>
         ELSE /\ pc' = [pc EXCEPT ![Worker] = "w_due"]
              /\ UNCHANGED <<items, now>>
  /\ UNCHANGED <<ops, clock, registry, lock, stopFlag, ck, floc, removedIds,
                 stopReturned>>
  /\ Commit(heap, sent)

\* Mutant: the interval test never succeeds.
WDue_NeverDue ==
  /\ pc[Worker] = "w_due"
  /\ pc' = [pc EXCEPT ![Worker] = "w_iter"]
  /\ items' = Tail(items)
  /\ UNCHANGED <<ops, clock, registry, lock, stopFlag, now, ck, floc,
                 removedIds, stopReturned>>
  /\ Commit(heap, sent)

WDue ==
  /\ pc[Worker] = "w_due"
  /\ IF IsDue(now, heap[Head(items)].last_checked)
       THEN /\ pc' = [pc EXCEPT ![Worker] = "c_io"]
            /\ ck' = [ck EXCEPT ![Worker] =
                         NewFrame(Head(items), heap[Head(items)])]
            /\ UNCHANGED items
       ELSE /\ pc' = [pc EXCEPT ![Worker] = "w_iter"]
            /\ items' = Tail(items)
            /\ UNCHANGED ck
  /\ UNCHANGED <<ops, clock, registry, lock, stopFlag, now, floc, removedIds,
                 stopReturned>>
  /\ Commit(heap, sent)

\* Mutant: after the sleep the next scan starts without the loop test.
WSleep_SkipsTest ==
  /\ pc[Worker] = "w_sleep"
  /\ pc' = [pc EXCEPT ![Worker] = "w_lock"]
  /\ now' = clock
  /\ UNCHANGED <<ops, clock, registry, heap, sent, lock, stopFlag,
                 items, ck, floc, removedIds, stopReturned>>

WSleep ==
  /\ pc[Worker] = "w_sleep"
  /\ pc' = [pc EXCEPT ![Worker] = "w_top"]
  /\ UNCHANGED <<ops, clock, registry, heap, sent, lock, stopFlag, now,
                 items, ck, floc, removedIds, stopReturned>>

\* ------------------------------------------------------------------- time
Tick(offsets) ==
  /\ \E d \in offsets :
       /\ StartTime + d > clock
       /\ clock' = StartTime + d
  /\ UNCHANGED <<ops, registry, heap, sent, lock, stopFlag, pc, now, items,
                 ck, floc, removedIds, stopReturned>>

\* ------------------------------------------- foreground: creating a monitor
\* The caller builds a fresh record; the app runs one synchronous first check
\* on it before handing it to the engine, other callers add it directly.
Submit(t, ones, firsts) ==
  /\ pc[t] = "idle"
  /\ ops < MaxOps
  /\ ops' = ops + 1
  /\ Objs \ LiveObjs # {}
  /\ \E id \in Ids, one \in ones, first \in firsts :
       LET o   == FreeObj
       IN  /\ floc' = [floc EXCEPT ![t].obj = o]
           /\ IF first
                THEN /\ pc' = [pc EXCEPT ![t] = "c_io"]
                     /\ ck' = [ck EXCEPT ![t] =
                                  NewFrame(o, NewRecord(id, one, TRUE))]
                ELSE /\ pc' = [pc EXCEPT ![t] = "add_lock"]
                     /\ UNCHANGED ck
           /\ UNCHANGED <<clock, registry, lock, stopFlag, now, items,
                          removedIds, stopReturned>>
           /\ Commit([heap EXCEPT ![o] = NewRecord(id, one, TRUE)], sent)

\* ------------------------------------------------ engine: add(item)
AddLock(t) ==
  /\ pc[t] = "add_lock"
  /\ LockFree(lock)
  /\ lock' = t
  /\ pc' = [pc EXCEPT ![t] = "add_body"]
  /\ UNCHANGED <<ops, clock, registry, heap, sent, stopFlag, now, items,
                 ck, floc, removedIds, stopReturned>>

AddBody(t) ==
  /\ pc[t] = "add_body"
  /\ registry' = RegAdd(registry, heap[floc[t].obj].id, floc[t].obj)
  /\ removedIds' = removedIds \ {heap[floc[t].obj].id}
  /\ lock' = "free"
  /\ pc' = [pc EXCEPT ![t] = "idle"]
  /\ floc' = [floc EXCEPT ![t] = NoLocals]
  /\ UNCHANGED <<ops, clock, stopFlag, now, items, ck, stopReturned>>
  /\ Commit(heap, sent)

\* ------------------------------------------------ engine: remove(item_id)
RemoveLock(t) ==
  /\ pc[t] = "idle"
  /\ ops < MaxOps
  /\ ops' = ops + 1
  /\ LockFree(lock)
  /\ \E id \in Ids : floc' = [floc EXCEPT ![t].id = id]
  /\ lock' = t
  /\ pc' = [pc EXCEPT ![t] = "rm_body"]
  /\ UNCHANGED <<clock, registry, heap, sent, stopFlag, now, items,
                 ck, removedIds, stopReturned>>

RemoveBody(t) ==
  /\ pc[t] = "rm_body"
  /\ registry' = RegRemove(registry, floc[t].id)
  /\ removedIds' = removedIds \cup {floc[t].id}
  /\ lock' = "free"
  /\ pc' = [pc EXCEPT ![t] = "idle"]
  /\ floc' = [floc EXCEPT ![t] = NoLocals]
  /\ UNCHANGED <<ops, clock, stopFlag, now, items, ck, stopReturned>>
  /\ Commit(heap, sent)

\* ------------------------------------------------ engine: set_active
SetActiveLock(t) ==
  /\ pc[t] = "idle"
  /\ ops < MaxOps
  /\ ops' = ops + 1
  /\ LockFree(lock)
  /\ \E id \in Ids, flag \in BOOLEAN :
       floc' = [floc EXCEPT ![t].id = id, ![t].flag = flag]
  /\ lock' = t
  /\ pc' = [pc EXCEPT ![t] = "sa_body"]
  /\ UNCHANGED <<clock, registry, heap, sent, stopFlag, now, items,
                 ck, removedIds, stopReturned>>

\* Mutant: set_active that flips the field.
SetActiveBody_Toggles(t) ==
  /\ pc[t] = "sa_body"
  /\ LET o == RegLookup(registry, floc[t].id)
     IN  heap' = IF o # 0 THEN [heap EXCEPT ![o].active = ~@]
                 ELSE heap
  /\ lock' = "free"
  /\ pc' = [pc EXCEPT ![t] = "idle"]
  /\ floc' = [floc EXCEPT ![t] = NoLocals]
  /\ UNCHANGED <<ops, clock, registry, sent, stopFlag, now, items, ck,
                 removedIds, stopReturned>>

SetActiveBody(t) ==
  /\ pc[t] = "sa_body"
  /\ LET o == RegLookup(registry, floc[t].id)
     IN  heap' = IF o # 0 THEN [heap EXCEPT ![o].active = floc[t].flag]
                 ELSE heap
  /\ lock' = "free"
  /\ pc' = [pc EXCEPT ![t] = "idle"]
  /\ floc' = [floc EXCEPT ![t] = NoLocals]
  /\ UNCHANGED <<ops, clock, registry, sent, stopFlag, now, items, ck,
                 removedIds, stopReturned>>

\* ------------------------------------------------ engine: list()
ListLock(t) ==
  /\ pc[t] = "idle"
  /\ ops < MaxOps
  /\ ops' = ops + 1
  /\ LockFree(lock)
  /\ lock' = t
  /\ pc' = [pc EXCEPT ![t] = "ls_copy"]
  /\ floc' = [floc EXCEPT ![t].i = 1]
  /\ UNCHANGED <<clock, registry, heap, sent, stopFlag, now, items,
                 ck, removedIds, stopReturned>>

\* dict(v): a copy of the record's top-level fields; found_slots is copied
\* as a reference to the same list object.
CopyOf(o) == [obj |-> o, rec |-> heap[o], shared |-> TRUE, own |-> <<>>]

ListCopy(t) ==
  /\ pc[t] = "ls_copy"
  /\ floc[t].i <= Len(registry)
  /\ floc' = [floc EXCEPT ![t].res = Append(@, CopyOf(registry[floc[t].i].obj)),
                          ![t].i = @ + 1]
  /\ UNCHANGED <<ops, clock, registry, heap, sent, lock, stopFlag, pc, now,
                 items, ck, removedIds, stopReturned>>

ListReturn(t) ==
  /\ pc[t] = "ls_copy"
  /\ floc[t].i > Len(registry)
  /\ lock' = "free"
  /\ pc' = [pc EXCEPT ![t] = "ls_held"]
  /\ floc' = [floc EXCEPT ![t].i = 0]
  /\ UNCHANGED <<ops, clock, registry, heap, sent, stopFlag, now, items,
                 ck, removedIds, stopReturned>>

\* ------------------------------- foreground: using the result of list()
\* The caller assigns a top-level field of a returned record.
MutateField(t) ==
  /\ pc[t] = "ls_held"
  /\ \E k \in DOMAIN floc[t].res :
       /\ floc[t].res[k].rec.status # "edited"
       /\ floc' = [floc EXCEPT ![t].res[k].rec.status = "edited"]
  /\ UNCHANGED <<ops, clock, registry, heap, sent, lock, stopFlag, pc, now,
                 items, ck, removedIds, stopReturned>>

\* The caller clears the found_slots list of a returned record in place.
MutateNested(t) ==
  /\ pc[t] = "ls_held"
  /\ \E k \in DOMAIN floc[t].res :
       LET c == floc[t].res[k]
       IN  IF c.shared
             THEN /\ heap[c.obj].found_slots # <<>>
                  /\ heap' = [heap EXCEPT ![c.obj].found_slots = <<>>]
                  /\ UNCHANGED floc
             ELSE /\ c.own # <<>>
                  /\ floc' = [floc EXCEPT ![t].res[k].own = <<>>]
                  /\ UNCHANGED heap
  /\ UNCHANGED <<ops, clock, registry, sent, lock, stopFlag, pc, now, items,
                 ck, removedIds, stopReturned>>

\* The caller drops the result.
ListDrop(t) ==
  /\ pc[t] = "ls_held"
  /\ pc' = [pc EXCEPT ![t] = "idle"]
  /\ floc' = [floc EXCEPT ![t] = NoLocals]
  /\ UNCHANGED <<ops, clock, registry, lock, stopFlag, now, items, ck,
                 removedIds, stopReturned>>
  /\ Commit(heap, sent)

\* ------------------------------------------------ engine: stop()
StopSet(t) ==
  /\ pc[t] = "idle"
  /\ ops < MaxOps
  /\ ops' = ops + 1
  /\ stopFlag' = TRUE
  /\ pc' = [pc EXCEPT ![t] = "st_join"]
  /\ UNCHANGED <<clock, registry, heap, sent, lock, now, items, ck,
                 floc, removedIds, stopReturned>>

\* join(timeout=3) returns when the worker has exited or the timeout expired.
StopJoin(t) ==
  /\ pc[t] = "st_join"
  /\ pc' = [pc EXCEPT ![t] = "idle"]
  /\ stopReturned' = TRUE
  /\ UNCHANGED <<ops, clock, registry, heap, sent, lock, stopFlag, now,
                 items, ck, floc, removedIds>>

\* ------------------------------------------------------------------- Next
Kinds == {"none", "match", "apierr"}

Next ==
  \/ WTop \/ WLock \/ WSnap \/ WIter \/ WDue \/ WSleep
  \/ CheckerRaise
  \/ Tick(ClockOffsets)
  \/ \E th \in Threads :
       \/ CheckerIO(th, Kinds) \/ CheckerSend(th) \/ CheckerSendRaise(th)
       \/ CheckerWrite(th)
  \/ \E t \in Editors :
       \/ Submit(t, BOOLEAN, BOOLEAN) \/ AddLock(t) \/ AddBody(t)
       \/ RemoveLock(t) \/ RemoveBody(t)
       \/ SetActiveLock(t) \/ SetActiveBody(t)
       \/ StopSet(t) \/ StopJoin(t)
  \/ \E t \in Viewers :
       \/ ListLock(t) \/ ListCopy(t) \/ ListReturn(t)
       \/ MutateField(t) \/ MutateNested(t) \/ ListDrop(t)

Spec == Init /\ [][Next]_vars

\* The poll loop on its first scans: the clock does not advance.
NextPoll ==
  \/ WTop \/ WLock \/ WSnap \/ WIter \/ WDue \/ WSleep
  \/ CheckerRaise
  \/ \E th \in Threads :
       \/ CheckerIO(th, {"none", "match"}) \/ CheckerSend(th)
       \/ CheckerSendRaise(th) \/ CheckerWrite(th)
  \/ \E t \in Editors :
       \/ Submit(t, {TRUE}, BOOLEAN) \/ AddLock(t) \/ AddBody(t)
       \/ RemoveLock(t) \/ RemoveBody(t)
       \/ SetActiveLock(t) \/ SetActiveBody(t)
       \/ StopSet(t) \/ StopJoin(t)

SpecPoll == Init /\ [][NextPoll]_vars

\* The registry under concurrent foreground use: an editor and a viewer.
NextReg ==
  \/ WTop \/ WLock \/ WSnap \/ WIter \/ WDue \/ WSleep
  \/ CheckerRaise
  \/ \E th \in Threads :
       \/ CheckerIO(th, {"none", "match"}) \/ CheckerSend(th)
       \/ CheckerSendRaise(th) \/ CheckerWrite(th)
  \/ \E t \in Editors :
       \/ Submit(t, {TRUE}, {FALSE}) \/ AddLock(t) \/ AddBody(t)
       \/ RemoveLock(t) \/ RemoveBody(t)
  \/ \E t \in Viewers :
       \/ ListLock(t) \/ ListCopy(t) \/ ListReturn(t)
       \/ MutateField(t) \/ MutateNested(t) \/ ListDrop(t)

SpecReg == Init /\ [][NextReg]_vars

\* add, remove and list() racing with each other and with the poll loop: the
\* results of list() are looked at and dropped, never written to.
NextList ==
  \/ WTop \/ WLock \/ WSnap \/ WIter \/ WDue \/ WSleep
  \/ CheckerRaise
  \/ \E th \in Threads :
       \/ CheckerIO(th, {"none"}) \/ CheckerWrite(th)
  \/ \E t \in Editors :
       \/ Submit(t, {TRUE}, {FALSE}) \/ AddLock(t) \/ AddBody(t)
       \/ RemoveLock(t) \/ RemoveBody(t)
  \/ \E t \in Viewers :
       \/ ListLock(t) \/ ListCopy(t) \/ ListReturn(t) \/ ListDrop(t)

SpecList == Init /\ [][NextList]_vars

\* The poll interval: the clock advances, monitors are only added.
NextTime ==
  \/ WTop \/ WLock \/ WSnap \/ WIter \/ WDue \/ WSleep
  \/ CheckerRaise
  \/ Tick(ClockOffsets)
  \/ \E th \in Threads :
       \/ CheckerIO(th, {"none"}) \/ CheckerWrite(th)
  \/ \E t \in Editors :
       \/ Submit(t, {TRUE}, {FALSE}) \/ AddLock(t) \/ AddBody(t)

SpecTime == Init /\ [][NextTime]_vars

\* Checks that find slots and notify: monitors of both notification policies
\* are created as the app creates them, the clock advances.
NextNotify ==
  \/ WTop \/ WLock \/ WSnap \/ WIter \/ WDue \/ WSleep
  \/ Tick(ClockOffsets)
  \/ \E th \in Threads :
       \/ CheckerIO(th, {"none", "match"}) \/ CheckerSend(th)
       \/ CheckerSendRaise(th) \/ CheckerWrite(th)
  \/ \E t \in Editors :
       \/ Submit(t, BOOLEAN, {TRUE}) \/ AddLock(t) \/ AddBody(t)

SpecNotify == Init /\ [][NextNotify]_vars

\* run_check as the checker of one monitor id, with every way its I/O can
\* end: the monitor is created with either notification policy, the poll loop
\* checks it again when the interval has passed, set_active switches it back
\* on after a match.
NextCheck ==
  \/ WTop \/ WLock \/ WSnap \/ WIter \/ WDue \/ WSleep
  \/ Tick({120})
  \/ \E th \in Threads :
       \/ CheckerIO(th, Kinds) \/ CheckerSend(th)
       \/ CheckerSendRaise(th) \/ CheckerWrite(th)
  \/ \E t \in Editors :
       \/ (Submit(t, BOOLEAN, {FALSE}) /\ heap'[floc'[t].obj].id = "a")
       \/ AddLock(t) \/ AddBody(t)
       \/ (SetActiveLock(t) /\ floc'[t].id = "a")
       \/ SetActiveBody(t)

SpecCheck == Init /\ [][NextCheck]_vars

\* The app's way of creating monitors next to the poll loop: a synchronous
\* first check in the foreground, then add; one poll interval passes.
NextFirst ==
  \/ WTop \/ WLock \/ WSnap \/ WIter \/ WDue \/ WSleep
  \/ Tick({120})
  \/ \E th \in Threads :
       \/ CheckerIO(th, {"none"}) \/ CheckerWrite(th)
  \/ \E t \in Editors :
       \/ Submit(t, {TRUE}, BOOLEAN) \/ AddLock(t) \/ AddBody(t)

SpecFirst == Init /\ [][NextFirst]_vars

\* Fairness for the liveness claims: the worker thread keeps running (every
\* checker call it makes returns or raises), and a foreground thread that
\* holds the lock releases it.
\* Monitors are added, checks succeed or raise, the engine may be stopped.
NextIso ==
  \/ WTop \/ WLock \/ WSnap \/ WIter \/ WDue \/ WSleep
  \/ CheckerRaise
  \/ \E th \in Threads :
       \/ CheckerIO(th, {"none"}) \/ CheckerWrite(th)
  \/ \E t \in Editors :
       \/ Submit(t, {TRUE}, {FALSE}) \/ AddLock(t) \/ AddBody(t)
       \/ RemoveLock(t) \/ RemoveBody(t)
       \/ SetActiveLock(t) \/ SetActiveBody(t)
       \/ StopSet(t) \/ StopJoin(t)

WorkerStep ==
  \/ WTop \/ WLock \/ WSnap \/ WIter \/ WDue \/ WSleep
  \/ CheckerRaise
  \/ CheckerIO(Worker, {"none"}) \/ CheckerWrite(Worker)

SpecIso ==
  /\ Init /\ [][NextIso]_vars
  /\ WF_vars(WorkerStep)
  /\ \A t \in Editors :
       WF_vars(AddBody(t) \/ RemoveBody(t) \/ SetActiveBody(t))

\* The worker keeps running while monitors are added and one poll interval
\* passes; stop() is not called and every checker call returns.
WorkerReturns ==
  \/ WTop \/ WLock \/ WSnap \/ WIter \/ WDue \/ WSleep
  \/ CheckerIO(Worker, {"none"}) \/ CheckerWrite(Worker)

NextLive ==
  \/ WTop \/ WLock \/ WSnap \/ WIter \/ WDue \/ WSleep
  \/ Tick({120})
  \/ \E th \in Threads :
       \/ CheckerIO(th, {"none"}) \/ CheckerWrite(th)
  \/ \E t \in Editors :
       \/ Submit(t, {TRUE}, {FALSE}) \/ AddLock(t) \/ AddBody(t)

SpecLive ==
  /\ Init /\ [][NextLive]_vars
  /\ WF_vars(WorkerReturns)
  /\ \A t \in Editors : WF_vars(AddBody(t))

\* ================================================================== claims
\* The poll loop passes record o to the checker in this step.
WInvokes(o) ==
  pc[Worker] = "w_due" /\ pc'[Worker] = "c_io" /\ Head(items) = o

CheckingOn(o) == InChecker(Worker) /\ ck[Worker].obj = o

Registered(o) == o \in SeqRange(RegValues(registry))

ResObjs(t) == [k \in DOMAIN floc[t].res |-> floc[t].res[k].obj]

\* C1: a record whose active field is false is never passed to the checker
\* by the poll loop, in any interleaving with set_active.
C1_InactiveNeverChecked ==
  [][\A o \in Objs : WInvokes(o) => heap[o].active]_vars

\* C2: a checker failure never ends the poll loop (the worker exits only
\* after stop), and once the checker has raised for record a, every other
\* registered, active, due record b is eventually passed to the checker
\* (unless it stops being registered, active and due, or the engine is
\* stopped).
DueActive(o) ==
  Registered(o) /\ heap[o].active /\ IsDue(clock, heap[o].last_checked)

C2_FailureIsolation ==
  /\ [](pc[Worker] = "w_exit" => stopFlag)
  /\ \A b \in Objs :
       (DueActive(b) /\ ck[Worker].handler /\ ~CheckingOn(b))
         ~> (CheckingOn(b) \/ ~DueActive(b) \/ stopFlag)

C2_Witness ==
  \E a, b \in Objs :
    /\ a # b
    /\ heap[a].status_msg = "Background error"
    /\ Registered(a)
    /\ CheckingOn(b)

\* C3: when the poll loop passes a record to the checker, at least
\* POLL_INTERVAL_SEC seconds have passed since its last_checked was set.
C3_AtMostOncePerInterval ==
  [][\A o \in Objs :
       (WInvokes(o) /\ heap[o].last_checked # <<>>)
         => clock - heap[o].last_checked[1] >= 120]_vars

\* A second poll-loop check of a record whose previous check was made by the
\* poll loop (only its failure handler writes "Background error").
C3_Witness ==
  /\ pc[Worker] = "c_io"
  /\ heap[ck[Worker].obj].status_msg = "Background error"
  /\ heap[ck[Worker].obj].last_checked # <<>>

\* C4: when list() returns, its result holds exactly the records of the
\* registry, in registry order, as they are at that one moment.
C4_ListIsAtomic ==
  \A t \in Viewers :
    (pc[t] = "ls_copy" /\ floc[t].i > Len(registry))
      => /\ ResObjs(t) = RegValues(registry)
         /\ \A k \in DOMAIN registry : floc[t].res[k].rec.id = registry[k].id

\* list() is about to return a non-empty result while add() waits for the lock.
C4_Witness ==
  \E t \in Viewers, e \in Editors :
    /\ pc[t] = "ls_copy" /\ floc[t].i > Len(registry)
    /\ Len(floc[t].res) >= 1
    /\ pc[e] = "add_lock"

\* C5: nothing a caller does to a record returned by list(), its found_slots
\* list included, changes a record held in the registry.
RegistryView == [k \in DOMAIN registry |-> heap[registry[k].obj]]

C5_CopiesAreIndependent ==
  [][\A t \in Viewers :
       (MutateField(t) \/ MutateNested(t)) => RegistryView' = RegistryView]_vars

\* C6: a record copied by list() never shows part of the field updates of a
\* checker call: while a call on the record is in progress, the copy shows
\* the record as it was when the call started.
ResultFields(r) == <<r.status, r.status_msg, r.error, r.last_checked>>

C6_NoHalfWrittenRecord ==
  [][\A t \in Viewers :
       ListCopy(t) =>
         \A th \in Threads :
           (pc[th] = "c_write" /\ ck[th].obj = registry[floc[t].i].obj)
             => ResultFields(heap[ck[th].obj]) = ResultFields(ck[th].pre)]_vars

\* C7: once remove(id) has taken effect and until a later add of that id, the
\* registry holds no record with that id and no list() call copies one, also
\* while the poll loop still works on the removed record.
C7_RemovedStaysRemoved ==
  \A id \in removedIds :
    /\ id \notin RegIds(registry)
    /\ \A t \in Viewers :
         pc[t] = "ls_copy" =>
           \A k \in DOMAIN floc[t].res : floc[t].res[k].rec.id # id

\* list() is about to return while the poll loop is inside a checker call on
\* a record that was removed.
C7_Witness ==
  /\ InChecker(Worker)
  /\ heap[ck[Worker].obj].id \in removedIds
  /\ \E t \in Viewers : pc[t] = "ls_copy" /\ floc[t].i > Len(registry)

\* C8: after stop() has returned the poll loop starts no checker call.
C8_NoCheckAfterStop ==
  [][stopReturned => \A o \in Objs : ~WInvokes(o)]_vars

\* C9: an active record whose last_checked is unset is passed to the checker
\* when the poll loop visits it.
C9_UnsetIsDue ==
  [][\A o \in Objs :
       (/\ pc[Worker] = "w_due"
        /\ pc'[Worker] # "w_due"
        /\ Head(items) = o
        /\ heap[o].last_checked = <<>>)
         => (pc'[Worker] = "c_io" /\ ck'[Worker].obj = o)]_vars

C9_Witness ==
  /\ pc[Worker] = "c_io"
  /\ heap[ck[Worker].obj].last_checked = <<>>
  /\ Registered(ck[Worker].obj)

\* C10: an active record with last_checked = T visited in a scan at time
\* 'now' is passed to the checker if and only if now - T >= 120.
C10_DueIffIntervalElapsed ==
  [][\A o \in Objs :
       (/\ pc[Worker] = "w_due"
        /\ pc'[Worker] # "w_due"
        /\ Head(items) = o
        /\ heap[o].last_checked # <<>>)
         => ((pc'[Worker] = "c_io") <=> (now - heap[o].last_checked[1] >= 120))]_vars

\* A record is passed to the checker exactly 120 seconds after its last check.
C10_Witness ==
  /\ pc[Worker] = "c_io"
  /\ heap[ck[Worker].obj].last_checked # <<>>
  /\ now - heap[ck[Worker].obj].last_checked[1] = 120

\* The registry entries whose id is not 'id' are the same, in the same order,
\* and the records they hold have the same contents.
OthersKept(id) ==
  /\ SelectSeq(registry', LAMBDA e : e.id # id)
       = SelectSeq(registry, LAMBDA e : e.id # id)
  /\ \A i \in DOMAIN registry :
       registry[i].id # id => heap'[registry[i].obj] = heap[registry[i].obj]

EntriesFor(reg, id) == {i \in DOMAIN reg : reg[i].id = id}

\* C11: the registry never holds two records with the same id, and when add
\* takes effect the registry holds exactly one record for the added id, the
\* one just added, with its contents as passed; every entry with another id
\* and the record it holds are unchanged.
C11_AddInsertsOrReplaces ==
  /\ [](\A id \in Ids : Cardinality(EntriesFor(registry, id)) <= 1)
  /\ [][\A t \in Editors :
         AddBody(t) =>
           LET o  == floc[t].obj
               id == heap[o].id
           IN  /\ Cardinality(EntriesFor(registry', id)) = 1
               /\ RegLookup(registry', id) = o
               /\ heap'[o] = heap[o]
               /\ OthersKept(id)
               /\ pc'[t] = "idle"]_vars

\* After two operations, both adds of the same id: the registry holds the
\* second record while the poll loop's snapshot still holds the first.
C11_Witness ==
  /\ ops = 2
  /\ \A t \in Editors : pc[t] = "idle"
  /\ Len(registry) = 1
  /\ \E p \in SeqRange(items) :
       /\ p # registry[1].obj
       /\ heap[p].id = registry[1].id

\* C12: when remove takes effect the registry holds no entry for the id, every
\* entry with another id and the record it holds are unchanged, and the call
\* returns normally; if the id was absent the registry is unchanged.
C12_RemoveDeletesOrIgnores ==
  [][\A t \in Editors :
       RemoveBody(t) =>
         LET id == floc[t].id
         IN  /\ EntriesFor(registry', id) = {}
             /\ OthersKept(id)
             /\ (EntriesFor(registry, id) = {} => registry' = registry)
             /\ pc'[t] = "idle"]_vars

\* After two operations the registry holds b and a remove of a has returned:
\* a was absent when it was removed, b was or came to be registered.
C12_Witness ==
  /\ ops = 2
  /\ \A t \in Editors : pc[t] = "idle"
  /\ removedIds = {"a"}
  /\ RegIds(registry) = {"b"}

\* C13: when set_active(id, flag) takes effect, the record registered under id
\* has active = flag and all its other fields as before, no other record and
\* no registry entry changes, and the call returns normally; if no record is
\* registered under id nothing changes at all.
C13_SetActiveFrame ==
  [][\A t \in Editors :
       SetActiveBody(t) =>
         LET hit == EntriesFor(registry, floc[t].id)
         IN  /\ registry' = registry
             /\ pc'[t] = "idle"
             /\ \A i \in DOMAIN registry :
                  LET o == registry[i].obj
                  IN  heap'[o] = IF i \in hit
                                   THEN [heap[o] EXCEPT !.active = floc[t].flag]
                                   ELSE heap[o]
             /\ \A o \in Objs : ~Registered(o) => heap'[o] = heap[o]]_vars

\* Two records are registered and set_active has switched off the second one
\* only (in this specification no check ends with a match, so nothing else
\* writes active).
C13_Witness ==
  /\ Len(registry) = 2
  /\ heap[registry[1].obj].active
  /\ ~heap[registry[2].obj].active
  /\ \A t \in Editors : pc[t] = "idle"

\* C14: remove(id) leaves a registry without id, and on a registry without id
\* it changes nothing; set_active(id, true) leaves the record of id absent or
\* active, and on such a registry it changes nothing.  So the second of two
\* calls in a row has no effect, and neither call fails.
ActiveOrAbsent(reg, h, id) ==
  \A i \in EntriesFor(reg, id) : h[reg[i].obj].active

C14_Idempotence ==
  [][\A t \in Editors :
       /\ RemoveBody(t) =>
            /\ EntriesFor(registry', floc[t].id) = {}
            /\ pc'[t] = "idle"
            /\ (EntriesFor(registry, floc[t].id) = {}
                  => (registry' = registry /\ heap' = heap))
       /\ (SetActiveBody(t) /\ floc[t].flag) =>
            /\ ActiveOrAbsent(registry', heap', floc[t].id)
            /\ pc'[t] = "idle"
            /\ (ActiveOrAbsent(registry, heap, floc[t].id)
                  => (registry' = registry /\ heap' = heap))]_vars

\* The second of two remove(id) calls is at its pop: the first one has
\* returned, the id was not added again, and another record is registered.
C14_Witness ==
  \E t \in Editors :
    /\ pc[t] = "rm_body"
    /\ floc[t].id \in removedIds
    /\ registry # <<>>

\* C15: the poll loop holds the registry lock only while it takes its
\* snapshot, so never while a checker call is in progress; a foreground
\* caller waiting for the lock during a checker call waits for another
\* foreground caller at most.
C15_LockNotHeldInChecker ==
  /\ (lock = Worker) <=> (pc[Worker] = "w_snap")
  /\ \A th \in Threads : InChecker(th) => lock # th
  /\ InChecker(Worker) => lock \in {"free"} \cup Callers

\* A foreground operation is inside its locked section while the poll loop
\* waits for the network I/O of a checker call.
C15_Witness ==
  /\ pc[Worker] = "c_io"
  /\ lock \in Callers

\* C16: the snapshot a scan takes holds every record that is registered at
\* that moment, that is every record whose add has returned and that was not
\* removed or replaced since, in registry order.
C16_AddVisibleToNextScan ==
  [][WSnap =>
       /\ Len(items') = Len(registry)
       /\ \A i \in DOMAIN registry : items'[i] = registry[i].obj]_vars

\* A scan has just taken its snapshot: the first record was checked by an
\* earlier scan, the second was added since and is in the snapshot.
C16_Witness ==
  /\ pc[Worker] = "w_iter"
  /\ Len(items) = 2
  /\ Len(registry) = 2
  /\ items[2] = registry[2].obj
  /\ heap[items[1]].last_checked # <<>>
  /\ heap[items[2]].last_checked = <<>>

\* C17: a check of a stop_on_match record whose I/O found matching slots
\* returns with status = found, non-empty found_slots and active = false, and
\* the poll loop passes no record in that state to the checker.
C17_MatchStopsPolling ==
  /\ [][\A th \in Threads :
         (/\ CheckerWrite(th)
          /\ ck'[th] = NoFrame
          /\ ck[th].out = "match"
          /\ heap[ck[th].obj].stop_on_match)
           => LET o == ck[th].obj
              IN  /\ heap'[o].status = "found"
                  /\ heap'[o].found_slots # <<>>
                  /\ ~heap'[o].active]_vars
  /\ [][\A o \in Objs :
         WInvokes(o) => ~(heap[o].status = "found" /\ heap[o].stop_on_match)]_vars

\* C18: when the except-branch of the poll loop has run for a record, the
\* record has status = error, status_msg = "Background error", error = the
\* failure description and last_checked = the current time, and the loop goes
\* on with the rest of its snapshot.
C18_HandlerRecordsFailure ==
  [][(CheckerWrite(Worker) /\ ck[Worker].handler /\ ck'[Worker] = NoFrame) =>
       LET o == ck[Worker].obj
       IN  /\ Registered(o) =>
                /\ heap'[o].status = "error"
                /\ heap'[o].status_msg = "Background error"
                /\ heap'[o].error = "E_raise"
                /\ heap'[o].last_checked = <<clock>>
           /\ pc'[Worker] = "w_iter"
           /\ items' = Tail(items)]_vars

\* A scan over two monitors has ended: the checker raised for the first and
\* returned for the second, and both have last_checked set.
C18_Witness ==
  /\ pc[Worker] = "w_sleep"
  /\ Len(registry) = 2
  /\ LET f == heap[registry[1].obj]
         g == heap[registry[2].obj]
     IN  /\ f.status = "error" /\ f.status_msg = "Background error"
         /\ f.last_checked # <<>>
         /\ g.status = "none"
         /\ g.last_checked # <<>>

\* C19: once the stop signal is set the worker eventually exits, given that
\* the checker calls it makes return or raise; and a stop() call that has set
\* the signal can return whatever the worker is doing.
C19_StopTerminates ==
  /\ stopFlag ~> (pc[Worker] = "w_exit")
  /\ [](\A t \in Editors : pc[t] = "st_join" => ENABLED StopJoin(t))

\* The worker has exited and stop() has returned, with monitors registered.
C19_Witness ==
  /\ pc[Worker] = "w_exit"
  /\ stopReturned
  /\ registry # <<>>

\* C20: a run_check call never leaves through the caller's failure boundary,
\* and when it returns the record has last_checked = the current time and is
\* in one of three shapes: found with non-empty found_slots and a notification
\* dispatched for the record; none with empty found_slots; error with an
\* error description.
FoundShape(r, n) == r.status = "found" /\ r.found_slots # <<>> /\ n >= 1

NoneShape(r) == r.status = "none" /\ r.found_slots = <<>>

ErrorShape(r) == r.status = "error" /\ r.error \notin {"", "None"}

C20_RunCheckShapes ==
  /\ [](\A th \in Threads :
          /\ InChecker(th) => ~ck[th].handler
          /\ pc[th] = "c_write" => ck[th].todo # <<>>)
  /\ [][\A th \in Threads :
         (CheckerWrite(th) /\ ck'[th] = NoFrame /\ ck[th].obj \in LiveObjs') =>
           LET o == ck[th].obj
               r == heap'[o]
           IN  /\ r.last_checked = <<clock>>
               /\ \/ FoundShape(r, sent'[o])
                  \/ NoneShape(r)
                  \/ ErrorShape(r)]_vars

\* A second check of a send-once monitor found slots again, one interval
\* after the first: the record is in the found shape, with the one
\* notification sent by the first check.
C20_Witness ==
  \E o \in Objs :
    /\ Registered(o)
    /\ heap[o].status = "found"
    /\ heap[o].webhook_sent
    /\ heap[o].last_checked = <<StartTime + 120>>
    /\ sent[o] = 1
    /\ pc[Worker] = "w_iter"

\* C21: for a record with only_one_webhook = true at most one notification is
\* ever dispatched, webhook_sent never goes back from true to false, and a
\* check that started with webhook_sent = true sends nothing.
C21_SendOnce ==
  /\ [](\A o \in Objs : heap[o].only_one_webhook => sent[o] <= 1)
  /\ [][\A o \in Objs :
         (heap[o].only_one_webhook /\ heap[o].webhook_sent /\ o \in LiveObjs')
           => heap'[o].webhook_sent]_vars
  /\ [][\A th \in Threads :
         (CheckerSend(th) /\ ck[th].pre.only_one_webhook)
           => ~ck[th].pre.webhook_sent]_vars

\* A check that started with webhook_sent = true has found slots again and is
\* writing its result; the one notification was sent by an earlier check.
C21_Witness ==
  /\ pc[Worker] = "c_write"
  /\ ck[Worker].out = "match"
  /\ ck[Worker].pre.only_one_webhook
  /\ ck[Worker].pre.webhook_sent
  /\ sent[ck[Worker].obj] = 1

\* C22: no two checker calls are in progress on the same record; the poll
\* loop starts a call only when it has none in progress and none is in
\* progress on that record anywhere; and a foreground first check works on a
\* record that is not registered and that the poll loop does not hold.
C22_OneCheckInFlight ==
  /\ [](\A t1, t2 \in Threads :
          (t1 # t2 /\ InChecker(t1) /\ InChecker(t2))
            => ck[t1].obj # ck[t2].obj)
  /\ [](\A t \in Callers :
          InChecker(t) =>
            (~Registered(ck[t].obj) /\ ck[t].obj \notin SeqRange(items)))
  /\ [](\A th \in Threads : ~InChecker(th) => ck[th] = NoFrame)
  /\ [][\A o \in Objs :
         WInvokes(o) => \A th \in Threads : ~InChecker(th) \/ ck[th].obj # o]_vars

\* The poll loop and a foreground first check are both inside a checker call,
\* on different records.
C22_Witness ==
  /\ InChecker(Worker)
  /\ \E t \in Callers : InChecker(t) /\ ck[t].obj # ck[Worker].obj

\* C23: no foreground operation writes a field of a record while a checker
\* call of the poll loop on that record is in progress; in particular
\* set_active does not write its active field then.
C23_SingleMutator ==
  [][\A t \in Callers, o \in Objs :
       (CheckingOn(o) /\ Registered(o) /\ pc[t] # pc'[t])
         => heap'[o] = heap[o]]_vars

\* C24: the stop signal stays set, and a worker that is in its sleep between
\* scans (or at the loop test after it) when the signal is set goes nowhere
\* but to its exit, which it reaches: it takes no snapshot and calls no
\* checker.
C24_SleepInterruptible ==
  /\ [][stopFlag => stopFlag']_vars
  /\ [][(stopFlag /\ pc[Worker] \in {"w_sleep", "w_top"})
         => pc'[Worker] \in {"w_sleep", "w_top", "w_exit"}]_vars
  /\ (stopFlag /\ pc[Worker] = "w_sleep") ~> (pc[Worker] = "w_exit")

\* The stop signal is set while the worker sleeps between two scans.
C24_Witness ==
  /\ stopFlag
  /\ pc[Worker] = "w_sleep"
  /\ registry # <<>>

\* C25: a scan's snapshot lists the registered records in registry order and
\* without repetition, and the scan visits them from the front, one at a
\* time; the order of ids in the registry is the order of their first
\* insertion: add keeps the position of an id it replaces and appends a new
\* id, remove keeps the order of the others.
IdSeq(reg) == [i \in DOMAIN reg |-> reg[i].id]

C26_DueEventuallyChecked ==
  /\ \A b \in Objs :
       DueActive(b) ~> (CheckingOn(b) \/ ~DueActive(b))
  /\ [][(/\ pc[Worker] = "w_due"
         /\ pc'[Worker] # "w_due"
         /\ IsDue(now, heap[Head(items)].last_checked))
         => (pc'[Worker] = "c_io" /\ ck'[Worker].obj = Head(items))]_vars
  /\ [](pc[Worker] # "w_exit")

\* The poll loop checks a record again that became due by the passing of one
\* poll interval since its last check.
C26_Witness ==
  /\ pc[Worker] = "c_io"
  /\ clock = StartTime + 120
  /\ heap[ck[Worker].obj].last_checked = <<StartTime>>
  /\ Registered(ck[Worker].obj)

\* C27: a run_check call on a record with only_one_webhook = false whose I/O
\* found matching slots returns with status = found, found_slots = the
\* matches, one notification dispatched per matched slot, and active = false
\* if stop_on_match is true.
C27_NotifyEverySlot ==
  [][\A th \in Threads :
       (/\ CheckerWrite(th)
        /\ ck'[th] = NoFrame
        /\ ck[th].out = "match"
        /\ ~ck[th].pre.only_one_webhook
        /\ ck[th].obj \in LiveObjs')
         => LET r == heap'[ck[th].obj]
            IN  /\ r.status = "found"
                /\ r.found_slots \in MatchLists
                /\ sent'[ck[th].obj] >= Len(r.found_slots)
                /\ r.stop_on_match => ~r.active]_vars

\* C28: a snapshot holds registered records only, none under an id whose
\* remove has returned; nothing enters the snapshot during the scan; and a
\* record that is no longer registered when the poll loop passes it to the
\* checker is not in the rest of that scan's snapshot.  So after remove(id)
\* has returned the record is passed to the checker at most once more, by
\* the scan that took its snapshot before the removal.
C28_RemovedCheckedAtMostOnce ==
  /\ [][WSnap =>
         \A i \in DOMAIN items' :
           /\ Registered(items'[i])
           /\ heap[items'[i]].id \notin removedIds]_vars
  /\ [][~WSnap => SeqRange(items') \subseteq SeqRange(items)]_vars
  /\ [][\A o \in Objs :
         (WInvokes(o) /\ ~Registered(o)) => o \notin SeqRange(Tail(items))]_vars
  /\ [][(CheckerWrite(Worker) /\ ck'[Worker] = NoFrame)
         => items' = Tail(items)]_vars

\* remove(id) has returned, and the scan that took its snapshot before is
\* about to pass the removed record, which is due, to the checker.
C28_Witness ==
  /\ pc[Worker] = "w_due"
  /\ \A t \in Callers : pc[t] = "idle"
  /\ ~Registered(Head(items))
  /\ heap[Head(items)].id \in removedIds
  /\ IsDue(now, heap[Head(items)].last_checked)

\* C29: the checker raising and every step of the poll loop's except-branch
\* leave the registry as it is, leave every other record as it is, and
\* change no field of the failing record other than status, status_msg,
\* error and last_checked: its active flag and its found_slots stay.
Contained(r) ==
  [r EXCEPT !.status = "", !.status_msg = "", !.error = "",
            !.last_checked = <<>>]

C29_FailureContained ==
  [][(CheckerRaise \/ (CheckerWrite(Worker) /\ ck[Worker].handler)) =>
       LET a == ck[Worker].obj
       IN  /\ registry' = registry
           /\ \A o \in LiveObjs' :
                IF o = a THEN Contained(heap'[o]) = Contained(heap[o])
                         ELSE heap'[o] = heap[o]]_vars

\* The except-branch is running for the second of two registered records,
\* which is active; the first one has been checked with a result.
C29_Witness ==
  /\ pc[Worker] = "c_write"
  /\ ck[Worker].handler
  /\ Len(registry) = 2
  /\ ck[Worker].obj = registry[2].obj
  /\ heap[registry[2].obj].active
  /\ heap[registry[2].obj].status = "error"
  /\ heap[registry[1].obj].status = "none"

\* C30: the registry changes only in the locked sections of add and remove,
\* never in a step of the poll loop or of a checker call.  When add replaces
\* a record that a checker call is working on, that record is no longer
\* registered; the writes of a checker call on a record that is not
\* registered change no registered record; and list() copies registered
\* records only, as they are at that moment.
C30_LoopLeavesRegistryIds ==
  /\ [][(\A t \in Editors : ~AddBody(t) /\ ~RemoveBody(t))
         => registry' = registry]_vars
  /\ [][\A t \in Editors, th \in Threads :
         (/\ AddBody(t)
          /\ InChecker(th)
          /\ ck[th].obj # floc[t].obj
          /\ heap[ck[th].obj].id = heap[floc[t].obj].id)
           => ck[th].obj \notin SeqRange(RegValues(registry'))]_vars
  /\ [][\A th \in Threads :
         (pc[th] = "c_write" /\ ck'[th] # ck[th] /\ ~Registered(ck[th].obj))
           => \A o \in Objs : Registered(o) => heap'[o] = heap[o]]_vars
  /\ [][\A t \in Viewers :
         ListCopy(t) =>
           LET c == floc'[t].res[Len(floc'[t].res)]
           IN  Registered(c.obj) /\ c.rec = heap[c.obj]]_vars

\* list() is about to return the new record of an id while the poll loop is
\* in the middle of the writes of a checker call on the record it replaced.
C30_Witness ==
  \E t \in Viewers :
    /\ pc[t] = "ls_copy" /\ floc[t].i > Len(registry)
    /\ Len(floc[t].res) = 1
    /\ pc[Worker] = "c_write"
    /\ ~Registered(ck[Worker].obj)
    /\ heap[ck[Worker].obj].id = registry[1].id
    /\ heap[ck[Worker].obj].status = "none"
    /\ floc[t].res[1].obj = registry[1].obj
    /\ floc[t].res[1].rec.status = "polling"

====
